---- MODULE Spec2Model ----
(***************************************************************************)
(* Model of summarize_workflow (workflow_summarizer_mcp.py).               *)
(*                                                                         *)
(* One coroutine frame per invocation; the frames share the output         *)
(* directory (files), the process environment (environ) and the event      *)
(* loop (running).  Strings the code searches (node types) are tuples of   *)
(* one-character strings, so that lower() and the substring tests are      *)
(* computed; other strings are TLA+ strings.  Progress fractions are kept  *)
(* in tenths (0.1 is 1, 1.0 is 10).  Python dicts are functions whose      *)
(* domain is the set of keys that are present.  The logging calls          *)
(* (ctx.info, ctx.warning, ctx.error, logger) change no state and are      *)
(* left out; the timestamp of line 105 only reaches the prompt text.       *)
(* ctx.report_progress is taken to return normally; the completion call,   *)
(* the reading of choices[0].message.content and the writing of the        *)
(* output file may raise.  The sampling temperature 0.7 is kept as 7.      *)
(***************************************************************************)
EXTENDS Integers, Sequences, FiniteSets, TLC

VARIABLES frame, disk, files, environ, running

vars == <<frame, disk, files, environ, running>>

(***************************************************************************)
(* Bounds of the model.                                                    *)
(***************************************************************************)
\* longest node list drawn exhaustively over the node catalogue
MaxShortLen == 3
\* longest node list of the long workflows (beyond the fallback cap)
MaxNodes == 21

(***************************************************************************)
(* Constants of the program.                                               *)
(***************************************************************************)
TokenThreshold == 12000
CharsPerToken == 4
FallbackNodeCap == 20
MinPromptLen == 10
FallbackModel == "gpt-3.5-turbo-16k"
DefaultModel == "gpt-4o"
AltShapeModel == "o1"
MaxOutputTokens == 4000

Invocations == {1, 2}

(***************************************************************************)
(* Character strings: lower() and substring containment.                   *)
(***************************************************************************)
UpperToLower ==
  [A |-> "a", B |-> "b", C |-> "c", D |-> "d", E |-> "e", F |-> "f",
   G |-> "g", H |-> "h", I |-> "i", J |-> "j", K |-> "k", L |-> "l",
   M |-> "m", N |-> "n", O |-> "o", P |-> "p", Q |-> "q", R |-> "r",
   S |-> "s", T |-> "t", U |-> "u", V |-> "v", W |-> "w", X |-> "x",
   Y |-> "y", Z |-> "z"]

\* str.lower()
Lower(s) ==
  [k \in 1..Len(s) |-> IF s[k] \in DOMAIN UpperToLower THEN UpperToLower[s[k]] ELSE s[k]]

\* kw in s
Contains(s, kw) ==
  \E k \in 0..(Len(s) - Len(kw)) : SubSeq(s, k + 1, k + Len(kw)) = kw

KwOpenai == <<"o", "p", "e", "n", "a", "i">>
KwAi == <<"a", "i">>
KwGpt == <<"g", "p", "t">>
KwLlm == <<"l", "l", "m">>
KwAgent == <<"a", "g", "e", "n", "t">>
KwAnthropic == <<"a", "n", "t", "h", "r", "o", "p", "i", "c">>
KwLangchain == <<"l", "a", "n", "g", "c", "h", "a", "i", "n">>
KwPostgres == <<"p", "o", "s", "t", "g", "r", "e", "s">>
KwMysql == <<"m", "y", "s", "q", "l">>
KwDatabase == <<"d", "a", "t", "a", "b", "a", "s", "e">>
KwSql == <<"s", "q", "l">>
KwMongo == <<"m", "o", "n", "g", "o">>
KwSupabase == <<"s", "u", "p", "a", "b", "a", "s", "e">>

TypeUnknown == <<"u", "n", "k", "n", "o", "w", "n">>
TypeHttpRequest ==
  <<"n", "8", "n", "-", "n", "o", "d", "e", "s", "-", "b", "a", "s", "e", ".",
    "h", "t", "t", "p", "R", "e", "q", "u", "e", "s", "t">>
TypeOpenAiAgent == <<"o", "p", "e", "n", "A", "i", "A", "g", "e", "n", "t">>
TypeMySql ==
  <<"n", "8", "n", "-", "n", "o", "d", "e", "s", "-", "b", "a", "s", "e", ".",
    "M", "y", "S", "q", "l">>
TypeEmailSend == <<"e", "m", "a", "i", "l", "S", "e", "n", "d">>
TypeSqlAgent ==
  <<"l", "a", "n", "g", "c", "h", "a", "i", "n", ".", "s", "q", "l", "A", "g",
    "e", "n", "t">>

(***************************************************************************)
(* Node records of the input documents.                                    *)
(***************************************************************************)
NodeHttp ==
  [name |-> "Fetch", type |-> TypeHttpRequest,
   parameters |-> [url |-> "http://example.com"],
   position |-> <<0, 0>>, id |-> "n1"]
NodeAgent ==
  [name |-> "Agent", type |-> TypeOpenAiAgent,
   parameters |-> [systemPrompt |-> "You are a helpful assistant", text |-> "short"],
   position |-> <<2, 10>>, credentials |-> [width |-> 20]]
NodeMySql ==
  [name |-> "Store", type |-> TypeMySql,
   parameters |-> [operation |-> "insert", table |-> "runs", options |-> "x"],
   position |-> <<4, 0>>]
NodeEmail ==
  [name |-> "Mail", type |-> TypeEmailSend,
   parameters |-> [text |-> "Hello there, world"],
   position |-> <<6, 0>>]
NodeSqlAgent ==
  [name |-> "Ask", type |-> TypeSqlAgent,
   parameters |-> [text |-> "Summarise the table", query |-> "select 1"]]
NodeBare == [name |-> "Bare"]

Catalogue == <<NodeHttp, NodeAgent, NodeMySql, NodeEmail, NodeSqlAgent, NodeBare>>

(***************************************************************************)
(* json.dumps: the length of the serialised text, with the default         *)
(* separators ", " and ": ".  An opaque value is kept as its width.        *)
(***************************************************************************)
RECURSIVE SumFn(_)
SumFn(f) ==
  IF DOMAIN f = {} THEN 0
  ELSE LET k == CHOOSE j \in DOMAIN f : TRUE
       IN  f[k] + SumFn([j \in DOMAIN f \ {k} |-> f[j]])

RECURSIVE IntLen(_)
IntLen(n) == IF n < 10 THEN 1 ELSE 1 + IntLen(n \div 10)

StrLen(s) == Len(s) + 2

\* "[" items joined by ", " "]"
ListLen(widths) ==
  2 + SumFn(widths) + (IF Len(widths) = 0 THEN 0 ELSE 2 * (Len(widths) - 1))

\* "{" "key": value joined by ", " "}"
DictLen(widths) ==
  LET n == Cardinality(DOMAIN widths)
  IN  2 + SumFn([k \in DOMAIN widths |-> Len(k) + 4 + widths[k]])
        + (IF n = 0 THEN 0 ELSE 2 * (n - 1))

ParamsLen(p) == DictLen([k \in DOMAIN p |-> StrLen(p[k])])

NodeLen(node) ==
  DictLen([k \in DOMAIN node |->
    CASE k \in {"name", "id"} -> StrLen(node[k])
      [] k = "type" -> Len(node[k]) + 2
      [] k = "parameters" -> ParamsLen(node[k])
      [] k = "position" -> ListLen([j \in 1..Len(node[k]) |-> IntLen(node[k][j])])
      [] OTHER -> node[k].width])

JsonLen(doc) ==
  DictLen([k \in DOMAIN doc |->
    CASE k = "name" -> StrLen(doc[k])
      [] k = "nodes" -> ListLen([j \in 1..Len(doc[k]) |-> NodeLen(doc[k][j])])
      [] OTHER -> doc[k].width])

(***************************************************************************)
(* dict.get with a default.                                                *)
(***************************************************************************)
Get(d, key, default) == IF key \in DOMAIN d THEN d[key] ELSE default

Min(a, b) == IF a < b THEN a ELSE b

(***************************************************************************)
(* Node classifier (lines 56-81).                                          *)
(***************************************************************************)
\* one pass of the loop body of lines 65-66: node_types is kept as the
\* sequence of its items, in insertion order
CountType(node_types, node) ==
  LET node_type == Get(node, "type", TypeUnknown)
      hit == {k \in 1..Len(node_types) : node_types[k].type = node_type}
  IN  IF hit = {}
      THEN Append(node_types, [type |-> node_type, count |-> 1])
      ELSE [k \in 1..Len(node_types) |->
             IF k \in hit
             THEN [type |-> node_type, count |-> node_types[k].count + 1]
             ELSE node_types[k]]

RECURSIVE NodeTypes(_)
NodeTypes(nodes) ==
  IF nodes = <<>> THEN <<>>
  ELSE CountType(NodeTypes(SubSeq(nodes, 1, Len(nodes) - 1)), nodes[Len(nodes)])

IsAiType(type_) ==
  LET t == Lower(type_)
  IN  \/ Contains(t, KwOpenai) \/ Contains(t, KwAi)
      \/ Contains(t, KwGpt) \/ Contains(t, KwLlm)
      \/ Contains(t, KwAgent) \/ Contains(t, KwAnthropic)
      \/ Contains(t, KwLangchain)

IsDbType(type_) ==
  LET t == Lower(type_)
  IN  \/ Contains(t, KwPostgres) \/ Contains(t, KwMysql)
      \/ Contains(t, KwDatabase) \/ Contains(t, KwSql)
      \/ Contains(t, KwMongo) \/ Contains(t, KwSupabase)

\* variant: one count per keyword found in the type
AiNodesPerKeyword(node_types) ==
  LET t(k) == Lower(node_types[k].type)
      hits(k) == Cardinality({kw \in {KwOpenai, KwAi, KwGpt, KwLlm, KwAgent,
                                      KwAnthropic, KwLangchain} : Contains(t(k), kw)})
  IN  SumFn([k \in 1..Len(node_types) |-> node_types[k].count * hits(k)])

AiNodes(node_types) ==
  SumFn([k \in {j \in 1..Len(node_types) : IsAiType(node_types[j].type)} |->
          node_types[k].count])

DbNodes(node_types) ==
  SumFn([k \in {j \in 1..Len(node_types) : IsDbType(node_types[j].type)} |->
          node_types[k].count])

(***************************************************************************)
(* Prompt extractor (lines 86-99).                                         *)
(***************************************************************************)
IsPromptNode(node) ==
  LET t == Lower(Get(node, "type", <<>>))
  IN  Contains(t, KwAgent) \/ Contains(t, KwOpenai)

KeepPrompt(p) == p # "" /\ Len(p) > MinPromptLen

RECURSIVE CollectPrompts(_, _)
CollectPrompts(nodes, key) ==
  IF nodes = <<>> THEN <<>>
  ELSE LET node == nodes[Len(nodes)]
           before == CollectPrompts(SubSeq(nodes, 1, Len(nodes) - 1), key)
           p == Get(Get(node, "parameters", <<>>), key, "")
       IN  IF IsPromptNode(node) /\ KeepPrompt(p) THEN Append(before, p) ELSE before

(***************************************************************************)
(* Size reducer (lines 119-171).                                           *)
(***************************************************************************)
EstimatedTokens(workflow_size) == workflow_size \div CharsPerToken

\* variant: the comparison of line 132 as >=
NeedsSimplifyAtThreshold(estimated_tokens) == estimated_tokens >= TokenThreshold

NeedsSimplify(estimated_tokens) == estimated_tokens > TokenThreshold

ImportantParams == {"text", "systemPrompt", "operation", "table", "query"}

KeysToRemove == {"pinData", "connections", "settings", "staticData"}

SimplifyNode(node) ==
  LET parameters == Get(node, "parameters", <<>>)
  IN  [name |-> Get(node, "name", ""),
       type |-> Get(node, "type", <<>>),
       parameters |-> [k \in DOMAIN parameters \cap ImportantParams |-> parameters[k]],
       position |-> Get(node, "position", <<>>)]

SimplifyWorkflow(workflow_json, nodes) ==
  [k \in (DOMAIN workflow_json \cup {"nodes"}) \ KeysToRemove |->
     IF k = "nodes"
     THEN [j \in 1..Len(nodes) |-> SimplifyNode(nodes[j])]
     ELSE workflow_json[k]]

(***************************************************************************)
(* Completion client (lines 204-312).                                      *)
(***************************************************************************)
\* the keyword arguments of client.chat.completions.create, lines 210-224
PrimaryRequest(model, prompt) ==
  IF model = AltShapeModel
  THEN [model |-> model, content |-> prompt,
        max_completion_tokens |-> MaxOutputTokens]
  ELSE [model |-> model, content |-> prompt,
        max_tokens |-> MaxOutputTokens, temperature |-> 7]

\* variants of the test of line 250: inverted, and absent
ShouldFallbackInverted(model) == model = FallbackModel

ShouldFallbackAlways(model) == TRUE

\* line 250
ShouldFallback(model) == model # FallbackModel

\* lines 256-261
SuperSimplified(workflow_title, node_count, node_types, simplified_workflow) ==
  LET snodes == Get(simplified_workflow, "nodes", <<>>)
  IN  [name |-> workflow_title,
       node_count |-> node_count,
       node_types |-> node_types,
       nodes |-> SubSeq(snodes, 1, Min(FallbackNodeCap, Len(snodes)))]

\* lines 282-287
FallbackRequest(fallback_prompt) ==
  [model |-> FallbackModel, content |-> fallback_prompt,
   max_tokens |-> MaxOutputTokens, temperature |-> 7]

\* line 244; a text is kept as the sequence of its parts
ErrorMessage(e) == <<"Error calling OpenAI API: ", e>>

\* variant: the text of line 244 returned at line 310
FallbackErrorMessageAsPrimary(fallback_error) == <<"Error calling OpenAI API: ", fallback_error>>

\* line 310
FallbackErrorMessage(fallback_error) == <<"Error with fallback model: ", fallback_error>>

\* line 110
MissingKeyMessage == <<"OPENAI_API_KEY environment variable not set">>

(***************************************************************************)
(* Result writer: Path(workflow_path).stem + "_summary.md" (lines 233,     *)
(* 296).  A path is kept parsed: directory, stem, suffix.                  *)
(***************************************************************************)
OutputPath(workflow_path) == workflow_path.stem \o "_summary.md"

(***************************************************************************)
(* Inputs: workflow documents, input files, paths, models, responses.      *)
(***************************************************************************)
NodeList(idx) == [k \in 1..Len(idx) |-> Catalogue[idx[k]]]

\* every node list of at most MaxShortLen catalogue nodes
ShortLists ==
  UNION {{NodeList(idx) : idx \in [1..n -> 1..Len(Catalogue)]} : n \in 0..MaxShortLen}

\* the catalogue repeated in order, n nodes long
LongList(n) == [k \in 1..n |-> Catalogue[((k - 1) % Len(Catalogue)) + 1]]

LongLists == {LongList(n) : n \in {1} \cup ((FallbackNodeCap - 1)..MaxNodes)}

ShortDocs ==
  {[name |-> "Demo", nodes |-> l] : l \in ShortLists}
    \cup {[settings |-> [width |-> 2]]}

LongDoc(l) ==
  [name |-> "Big", nodes |-> l, connections |-> [width |-> 40],
   pinData |-> [width |-> 2], meta |-> [width |-> 2]]

\* the document with its opaque "meta" value widened until the serialised
\* text is size characters long
Padded(doc, size) ==
  [doc EXCEPT !.meta = [width |-> doc.meta.width + (size - JsonLen(doc))]]

\* serialised sizes around the boundary of the token estimate
BoundarySizes ==
  LET b == TokenThreshold * CharsPerToken
  IN  {b - 1, b, b + CharsPerToken - 1, b + CharsPerToken, b + CharsPerToken + 1}

LongDocs ==
  {LongDoc(l) : l \in LongLists}
    \cup {Padded(LongDoc(l), size) : l \in LongLists, size \in BoundarySizes}

\* what open() and json.load find at the input path (lines 39-46)
InputFiles ==
  {[kind |-> "missing"], [kind |-> "invalid"]}
    \cup {[kind |-> "utf8", doc |-> d] : d \in ShortDocs \cup LongDocs}
    \cup {[kind |-> "latin1", doc |-> d] : d \in LongDocs}

PathA == [dir |-> "a", stem |-> "wf", suffix |-> ".json"]
PathB == [dir |-> "b", stem |-> "wf", suffix |-> ".json"]
PathC == [dir |-> "a", stem |-> "crm", suffix |-> ".json"]
Paths == {PathA, PathB, PathC}

OutputNames == {OutputPath(p) : p \in Paths}

Models == {DefaultModel, AltShapeModel, FallbackModel}

\* exceptions of the completion API
ApiErrors == {"rate limit", "timeout"}

\* message.content of a choice; NoContent is Python's None
NoContent == "<None>"
Texts == {"# Summary A", "# Summary B"}

\* response.choices as the sequence of the choices' message contents
Responses == {<<>>} \cup {<<c>> : c \in Texts \cup {NoContent}}

\* a file that does not exist
NoFile == "<no file>"

NewFrame(workflow_path, model, ctx) ==
  [pc |-> "start", workflow_path |-> workflow_path, model |-> model, ctx |-> ctx,
   original |-> <<>>, workflow_json |-> <<>>, workflow_title |-> "",
   nodes |-> <<>>, node_count |-> 0, node_types |-> <<>>,
   ai_nodes |-> 0, db_nodes |-> 0, user_prompts |-> <<>>, system_prompts |-> <<>>,
   estimated_tokens |-> 0, simplified_workflow |-> <<>>, prompt |-> <<>>,
   calls |-> <<>>, response |-> <<>>, e |-> "", error_message |-> <<>>,
   progress |-> <<>>, opened |-> <<>>, result |-> <<>>]

\* the frame of an invocation that is not made
NoFrame == [NewFrame(PathA, DefaultModel, FALSE) EXCEPT !.pc = "absent"]

InitShared(fr, dk, env) ==
  /\ frame = fr
  /\ disk = dk
  /\ environ = env
  /\ files = [n \in OutputNames |-> NoFile]
  /\ running = 0

\* one invocation
Init ==
  \E m \in Models, c \in BOOLEAN, f \in InputFiles, env \in BOOLEAN :
    InitShared([i \in Invocations |-> IF i = 1 THEN NewFrame(PathA, m, c) ELSE NoFrame],
               (PathA :> f), env)

\* two invocations for two different input files, made together
ConcFiles ==
  {[kind |-> "utf8", doc |-> [name |-> "Demo", nodes |-> <<NodeHttp>>]]}

InitConc ==
  \E p1 \in Paths, p2 \in Paths, c1 \in BOOLEAN, c2 \in BOOLEAN, f \in ConcFiles :
    /\ p1 # p2
    /\ InitShared([i \in Invocations |->
                     NewFrame(IF i = 1 THEN p1 ELSE p2, DefaultModel,
                              IF i = 1 THEN c1 ELSE c2)],
                  (p1 :> f) @@ (p2 :> f), TRUE)

(***************************************************************************)
(* The event loop.  The coroutine gives the loop up only at an await       *)
(* (ctx.report_progress) and when it ends; the completion client is the    *)
(* synchronous one, so the loop is held while a call is in flight.         *)
(***************************************************************************)
CanRun(i) == running \in {0, i}

Holds(i) == running' = i

Awaits(i, awaited) == running' \in (IF awaited THEN {0, i} ELSE {i})

Ends == running' = 0

\* await ctx.report_progress(fraction, ...), under "if ctx:"
Report(fr, fractions) == IF fr.ctx THEN fr.progress \o fractions ELSE fr.progress

Shared == <<disk, environ>>

(***************************************************************************)
(* The steps of summarize_workflow.                                        *)
(***************************************************************************)
\* lines 35-49
Load(i) ==
  /\ CanRun(i)
  /\ frame[i].pc = "start"
  /\ LET f == disk[frame[i].workflow_path]
     IN  IF f.kind \in {"utf8", "latin1"}
         THEN /\ frame' = [frame EXCEPT ![i].pc = "loaded", ![i].workflow_json = f.doc]
              /\ Holds(i)
         ELSE /\ frame' = [frame EXCEPT ![i].pc = "raised",
                             ![i].e = IF f.kind = "missing" THEN "FileNotFoundError"
                                      ELSE "JSONDecodeError"]
              /\ Ends
  /\ UNCHANGED <<Shared, files>>

\* lines 51-105
Analyze(i) ==
  /\ CanRun(i)
  /\ frame[i].pc = "loaded"
  /\ LET workflow_json == frame[i].workflow_json
         nodes == Get(workflow_json, "nodes", <<>>)
         node_types == NodeTypes(nodes)
     IN  frame' = [frame EXCEPT ![i].pc = "analyzed",
                     ![i].workflow_title = Get(workflow_json, "name", "Untitled Workflow"),
                     ![i].nodes = nodes,
                     ![i].node_count = Len(nodes),
                     ![i].node_types = node_types,
                     ![i].ai_nodes = AiNodes(node_types),
                     ![i].db_nodes = DbNodes(node_types),
                     ![i].user_prompts = CollectPrompts(nodes, "text"),
                     ![i].system_prompts = CollectPrompts(nodes, "systemPrompt")]
  /\ Holds(i)
  /\ UNCHANGED <<Shared, files>>

\* variant: the check of line 109 left out
CheckCredentialNoReturn(i) ==
  /\ CanRun(i)
  /\ frame[i].pc = "analyzed"
  /\ frame' = [frame EXCEPT ![i].pc = "client"]
  /\ running' = i
  /\ UNCHANGED <<disk, environ, files>>

\* lines 107-117
CheckCredential(i) ==
  /\ CanRun(i)
  /\ frame[i].pc = "analyzed"
  /\ IF ~environ
     THEN /\ frame' = [frame EXCEPT ![i].pc = "returned",
                         ![i].error_message = MissingKeyMessage,
                         ![i].result = MissingKeyMessage]
          /\ Ends
     ELSE /\ frame' = [frame EXCEPT ![i].pc = "client"]
          /\ Holds(i)
  /\ UNCHANGED <<Shared, files>>

\* lines 119-171
Simplify(i) ==
  /\ CanRun(i)
  /\ frame[i].pc = "client"
  /\ LET workflow_json == frame[i].workflow_json
         estimated_tokens == EstimatedTokens(JsonLen(workflow_json))
         simplified_workflow == SimplifyWorkflow(workflow_json, frame[i].nodes)
     IN  IF NeedsSimplify(estimated_tokens)
         THEN /\ frame' = [frame EXCEPT ![i].pc = "sized",
                             ![i].estimated_tokens = estimated_tokens,
                             ![i].simplified_workflow = simplified_workflow,
                             ![i].workflow_json = simplified_workflow,
                             ![i].progress = Report(frame[i], <<1, 2>>)]
              /\ Awaits(i, frame[i].ctx)
         ELSE /\ frame' = [frame EXCEPT ![i].pc = "sized",
                             ![i].estimated_tokens = estimated_tokens,
                             ![i].simplified_workflow = workflow_json]
              /\ Holds(i)
  /\ UNCHANGED <<Shared, files>>

\* lines 173-207
BuildPrompt(i) ==
  /\ CanRun(i)
  /\ frame[i].pc = "sized"
  /\ frame' = [frame EXCEPT ![i].pc = "prompted",
                 ![i].prompt = [title |-> frame[i].workflow_title,
                                node_count |-> frame[i].node_count,
                                node_types |-> frame[i].node_types,
                                ai_nodes |-> frame[i].ai_nodes,
                                db_nodes |-> frame[i].db_nodes,
                                user_prompts |-> frame[i].user_prompts,
                                system_prompts |-> frame[i].system_prompts,
                                workflow_json |-> frame[i].workflow_json],
                 ![i].progress = Report(frame[i], <<3, 4>>)]
  /\ Awaits(i, frame[i].ctx)
  /\ UNCHANGED <<Shared, files>>

\* lines 209-224: the request goes out
PrimaryCall(i) ==
  /\ CanRun(i)
  /\ frame[i].pc = "prompted"
  /\ frame' = [frame EXCEPT ![i].pc = "primary_call",
                 ![i].calls = Append(@, [attempt |-> "primary",
                                         request |-> PrimaryRequest(frame[i].model, frame[i].prompt),
                                         status |-> "pending", error |-> ""])]
  /\ Holds(i)
  /\ UNCHANGED <<Shared, files>>

\* lines 209-228: the call returns a response or raises
PrimaryResponse(i) ==
  /\ CanRun(i)
  /\ frame[i].pc = "primary_call"
  /\ \/ \E r \in Responses :
          /\ frame' = [frame EXCEPT ![i].pc = "primary_ok",
                         ![i].calls[Len(frame[i].calls)].status = "ok",
                         ![i].response = r,
                         ![i].progress = Report(frame[i], <<8>>)]
          /\ Awaits(i, frame[i].ctx)
     \/ \E err \in ApiErrors :
          /\ frame' = [frame EXCEPT ![i].pc = "primary_except",
                         ![i].calls[Len(frame[i].calls)].status = "error",
                         ![i].calls[Len(frame[i].calls)].error = err,
                         ![i].e = err]
          /\ Holds(i)
  /\ UNCHANGED <<Shared, files>>

\* lines 230-241 and 293-304: take the first choice, write the file, return;
\* an exception goes to the handler of the enclosing try
Save(i, except_pc) ==
  LET choices == frame[i].response
      output_path == OutputPath(frame[i].workflow_path)
  IN  IF choices = <<>>
      THEN /\ frame' = [frame EXCEPT ![i].pc = except_pc, ![i].e = "IndexError"]
           /\ Holds(i)
           /\ UNCHANGED files
      ELSE LET summary == choices[1]
           IN  \/ /\ frame' = [frame EXCEPT ![i].pc = except_pc, ![i].e = "OSError"]
                  /\ Holds(i)
                  /\ UNCHANGED files
               \/ /\ summary = NoContent
                  /\ frame' = [frame EXCEPT ![i].pc = except_pc, ![i].e = "TypeError",
                                 ![i].opened = Append(@, output_path)]
                  /\ files' = [files EXCEPT ![output_path] = ""]
                  /\ Holds(i)
               \/ /\ summary # NoContent
                  /\ frame' = [frame EXCEPT ![i].pc = "returned",
                                 ![i].opened = Append(@, output_path),
                                 ![i].progress = Report(frame[i], <<10>>),
                                 ![i].result = <<summary>>]
                  /\ files' = [files EXCEPT ![output_path] = summary]
                  /\ Ends

\* lines 230-241
PrimarySave(i) ==
  /\ CanRun(i)
  /\ frame[i].pc = "primary_ok"
  /\ Save(i, "primary_except")
  /\ UNCHANGED Shared

\* lines 243-253 and 312
PrimaryExcept(i) ==
  /\ CanRun(i)
  /\ frame[i].pc = "primary_except"
  /\ LET error_message == ErrorMessage(frame[i].e)
     IN  IF ShouldFallback(frame[i].model)
         THEN /\ frame' = [frame EXCEPT ![i].pc = "fallback",
                             ![i].error_message = error_message,
                             ![i].progress = Report(frame[i], <<10, 5>>)]
              /\ Awaits(i, frame[i].ctx)
         ELSE /\ frame' = [frame EXCEPT ![i].pc = "returned",
                             ![i].error_message = error_message,
                             ![i].progress = Report(frame[i], <<10>>),
                             ![i].result = error_message]
              /\ Ends
  /\ UNCHANGED <<Shared, files>>

\* lines 255-287: the request goes out
FallbackCall(i) ==
  /\ CanRun(i)
  /\ frame[i].pc = "fallback"
  /\ LET super_simplified ==
           SuperSimplified(frame[i].workflow_title, frame[i].node_count,
                           frame[i].node_types, frame[i].simplified_workflow)
         fallback_prompt ==
           [title |-> frame[i].workflow_title,
            node_count |-> frame[i].node_count,
            node_types |-> frame[i].node_types,
            super_simplified |-> super_simplified]
     IN  frame' = [frame EXCEPT ![i].pc = "fallback_call",
                     ![i].calls = Append(@, [attempt |-> "fallback",
                                             request |-> FallbackRequest(fallback_prompt),
                                             status |-> "pending", error |-> ""])]
  /\ Holds(i)
  /\ UNCHANGED <<Shared, files>>

\* lines 281-291: the call returns a response or raises
FallbackResponse(i) ==
  /\ CanRun(i)
  /\ frame[i].pc = "fallback_call"
  /\ \/ \E r \in Responses :
          /\ frame' = [frame EXCEPT ![i].pc = "fallback_ok",
                         ![i].calls[Len(frame[i].calls)].status = "ok",
                         ![i].response = r,
                         ![i].progress = Report(frame[i], <<9>>)]
          /\ Awaits(i, frame[i].ctx)
     \/ \E err \in ApiErrors :
          /\ frame' = [frame EXCEPT ![i].pc = "fallback_except",
                         ![i].calls[Len(frame[i].calls)].status = "error",
                         ![i].calls[Len(frame[i].calls)].error = err,
                         ![i].e = err]
          /\ Holds(i)
  /\ UNCHANGED <<Shared, files>>

\* lines 293-304
FallbackSave(i) ==
  /\ CanRun(i)
  /\ frame[i].pc = "fallback_ok"
  /\ Save(i, "fallback_except")
  /\ UNCHANGED Shared

\* lines 306-310
FallbackExcept(i) ==
  /\ CanRun(i)
  /\ frame[i].pc = "fallback_except"
  /\ frame' = [frame EXCEPT ![i].pc = "returned",
                 ![i].progress = Report(frame[i], <<10>>),
                 ![i].result = FallbackErrorMessage(frame[i].e)]
  /\ Ends
  /\ UNCHANGED <<Shared, files>>

Next ==
  \E i \in Invocations :
    \/ Load(i)
    \/ Analyze(i)
    \/ CheckCredential(i)
    \/ Simplify(i)
    \/ BuildPrompt(i)
    \/ PrimaryCall(i)
    \/ PrimaryResponse(i)
    \/ PrimarySave(i)
    \/ PrimaryExcept(i)
    \/ FallbackCall(i)
    \/ FallbackResponse(i)
    \/ FallbackSave(i)
    \/ FallbackExcept(i)

Spec == Init /\ [][Next]_vars

SpecConc == InitConc /\ [][Next]_vars

(***************************************************************************)
(* Vocabulary of the properties.                                           *)
(***************************************************************************)
Terminal(i) == frame[i].pc \in {"returned", "raised"}

\* the input document of invocation i, as stored in its file
InputDoc(i) == disk[frame[i].workflow_path].doc

LoadsOk(i) == disk[frame[i].workflow_path].kind \in {"utf8", "latin1"}

\* the primary completion call of invocation i has raised
PrimaryCallFailed(i) ==
  /\ Len(frame[i].calls) >= 1
  /\ frame[i].calls[1].status = "error"

FallbackCallsOf(i) ==
  {k \in 1..Len(frame[i].calls) : frame[i].calls[k].attempt = "fallback"}

\* the fallback completion call of invocation i has raised
FallbackCallFailed(i) ==
  \E k \in FallbackCallsOf(i) : frame[i].calls[k].status = "error"

(***************************************************************************)
(* C1: when the primary completion call fails and the requested model is   *)
(* not "gpt-3.5-turbo-16k", the finished run has issued exactly one        *)
(* fallback call; a fallback call targets "gpt-3.5-turbo-16k" and is       *)
(* issued only once the primary call is no longer pending; a run issues    *)
(* at most two completion calls.                                           *)
(***************************************************************************)
C1_OneFallbackAfterPrimaryFailure ==
  \A i \in Invocations :
    /\ Len(frame[i].calls) <= 2
    /\ \A k \in FallbackCallsOf(i) :
         /\ k = 2
         /\ frame[i].calls[1].attempt = "primary"
         /\ frame[i].calls[1].status # "pending"
         /\ frame[i].calls[k].request.model = "gpt-3.5-turbo-16k"
    /\ (Terminal(i) /\ PrimaryCallFailed(i) /\ frame[i].model # "gpt-3.5-turbo-16k")
         => Cardinality(FallbackCallsOf(i)) = 1

C1_Witness ==
  \E i \in Invocations :
    /\ Terminal(i)
    /\ PrimaryCallFailed(i)
    /\ frame[i].model = "gpt-4o"
    /\ Cardinality(FallbackCallsOf(i)) = 1

(***************************************************************************)
(* C2: when the primary and the fallback completion call have both failed, *)
(* the run has written no file, and it ends by returning (not raising) a   *)
(* text that says the fallback model was tried and carries the fallback's  *)
(* own error message.                                                      *)
(***************************************************************************)
C2_BothFailReturnsFallbackError ==
  \A i \in Invocations :
    (PrimaryCallFailed(i) /\ FallbackCallFailed(i)) =>
      /\ frame[i].opened = <<>>
      /\ files[frame[i].workflow_path.stem \o "_summary.md"] = "<no file>"
      /\ frame[i].pc # "raised"
      /\ Terminal(i) =>
           /\ frame[i].pc = "returned"
           /\ frame[i].result[1] = "Error with fallback model: "
           /\ \E k \in 1..Len(frame[i].result) : frame[i].result[k] = frame[i].calls[2].error

C2_Witness ==
  \E i \in Invocations :
    /\ Terminal(i)
    /\ PrimaryCallFailed(i)
    /\ FallbackCallFailed(i)
    /\ frame[i].calls[1].error # frame[i].calls[2].error

(***************************************************************************)
(* C3: when the requested model is "gpt-3.5-turbo-16k" and the primary     *)
(* completion call fails, the run makes that one call only, writes no      *)
(* file, and ends by returning the primary error text.                     *)
(***************************************************************************)
C3_NoFallbackOnFallbackModel ==
  \A i \in Invocations :
    (frame[i].model = "gpt-3.5-turbo-16k" /\ PrimaryCallFailed(i)) =>
      /\ Len(frame[i].calls) = 1
      /\ frame[i].opened = <<>>
      /\ frame[i].pc \in {"primary_except", "returned"}
      /\ Terminal(i) =>
           frame[i].result = <<"Error calling OpenAI API: ", frame[i].calls[1].error>>

C3_Witness ==
  \E i \in Invocations :
    /\ frame[i].model = "gpt-3.5-turbo-16k"
    /\ PrimaryCallFailed(i)
    /\ frame[i].pc = "returned"

(***************************************************************************)
(* C4: the fractions passed to report_progress in one invocation never     *)
(* decrease and stay within 0.0..1.0 (0..10 tenths).                       *)
(***************************************************************************)
C4_ProgressMonotone ==
  \A i \in Invocations :
    LET p == frame[i].progress
    IN  /\ \A k \in 1..Len(p) : p[k] \in 0..10
        /\ \A j \in 1..Len(p), k \in 1..Len(p) : j < k => p[j] <= p[k]

(***************************************************************************)
(* C5: the document handed to the prompt builder.                          *)
(***************************************************************************)
\* w is the ReducedWorkflowDocument of d: the four top-level keys are gone,
\* the others are kept, every node keeps name, type, position and the
\* whitelisted parameters
IsReducedDocument(w, d) ==
  LET dn == IF "nodes" \in DOMAIN d THEN d["nodes"] ELSE <<>>
  IN  /\ DOMAIN w = (DOMAIN d \cup {"nodes"}) \ {"pinData", "connections", "settings", "staticData"}
      /\ \A k \in DOMAIN w \ {"nodes"} : w[k] = d[k]
      /\ Len(w["nodes"]) = Len(dn)
      /\ \A j \in 1..Len(dn) :
           LET wn == w["nodes"][j]
               dp == IF "parameters" \in DOMAIN dn[j] THEN dn[j]["parameters"] ELSE <<>>
           IN  /\ DOMAIN wn = {"name", "type", "parameters", "position"}
               /\ \A f \in {"name", "type", "position"} :
                    f \in DOMAIN dn[j] => wn[f] = dn[j][f]
               /\ DOMAIN wn["parameters"] =
                    DOMAIN dp \cap {"text", "systemPrompt", "operation", "table", "query"}
               /\ \A q \in DOMAIN wn["parameters"] : wn["parameters"][q] = dp[q]

\* the token estimate of the input document: serialised length div 4
InputEstimate(i) == JsonLen(InputDoc(i)) \div 4

\* the prompt builder has just run for invocation i
PromptBuilt(i) == frame[i].pc = "prompted"

\* C5 as claimed: below 12000 the document is unchanged, at or above 12000
\* it is the ReducedWorkflowDocument
C5_ReducedAtOrAboveThreshold ==
  \A i \in Invocations :
    PromptBuilt(i) =>
      /\ InputEstimate(i) < 12000 => frame[i].prompt.workflow_json = InputDoc(i)
      /\ InputEstimate(i) >= 12000 =>
           IsReducedDocument(frame[i].prompt.workflow_json, InputDoc(i))

\* C5 as amended: at or below 12000 the document handed to the prompt
\* builder is the unchanged input document, above 12000 it is the
\* ReducedWorkflowDocument
C5_ReducedAboveThreshold ==
  \A i \in Invocations :
    PromptBuilt(i) =>
      /\ InputEstimate(i) <= 12000 => frame[i].prompt.workflow_json = InputDoc(i)
      /\ InputEstimate(i) > 12000 =>
           IsReducedDocument(frame[i].prompt.workflow_json, InputDoc(i))

C5_Witness ==
  \E i \in Invocations :
    /\ PromptBuilt(i)
    /\ InputEstimate(i) = 12000
    /\ "connections" \in DOMAIN InputDoc(i)
    /\ frame[i].prompt.workflow_json = InputDoc(i)

(***************************************************************************)
(* C6: when two invocations for two different input files have both        *)
(* returned a summary, the file <input-stem>_summary.md of each holds the  *)
(* text that this invocation returned.                                     *)
(***************************************************************************)
ReturnedSummary(i) ==
  /\ frame[i].pc = "returned"
  /\ frame[i].opened # <<>>
  /\ frame[i].result \in {<<t>> : t \in Texts}

C6_OwnOutputFile ==
  (/\ \A i \in Invocations : ReturnedSummary(i)
   /\ \A i, j \in Invocations : i # j => frame[i].workflow_path # frame[j].workflow_path)
    => \A i \in Invocations :
         files[frame[i].workflow_path.stem \o "_summary.md"] = frame[i].result[1]

(***************************************************************************)
(* C7: the API credential is absent.                                       *)
(***************************************************************************)
\* C7 as claimed: whatever the input path, the run ends by returning the
\* error text, with no completion call and no file written
C7_MissingKeyAlwaysReturned ==
  \A i \in Invocations :
    (~environ /\ frame[i].pc # "absent") =>
      /\ frame[i].calls = <<>>
      /\ frame[i].opened = <<>>
      /\ Terminal(i) =>
           /\ frame[i].pc = "returned"
           /\ frame[i].result = <<"OPENAI_API_KEY environment variable not set">>

\* C7 as amended: with the credential absent no completion call is issued
\* and no file is written, and when the workflow file loads the run ends by
\* returning the error text
C7_MissingKeyReturnedWhenLoaded ==
  \A i \in Invocations :
    (~environ /\ frame[i].pc # "absent") =>
      /\ frame[i].calls = <<>>
      /\ frame[i].opened = <<>>
      /\ \A n \in DOMAIN files : files[n] = "<no file>"
      /\ (Terminal(i) /\ LoadsOk(i)) =>
           /\ frame[i].pc = "returned"
           /\ frame[i].result = <<"OPENAI_API_KEY environment variable not set">>

C7_Witness ==
  \E i \in Invocations :
    /\ ~environ
    /\ LoadsOk(i)
    /\ frame[i].pc = "returned"
    /\ frame[i].result = <<"OPENAI_API_KEY environment variable not set">>

(***************************************************************************)
(* C8: the AI count is the number of nodes whose type contains, ignoring   *)
(* case, a keyword of the AI set, and the database count the number of     *)
(* nodes whose type contains a keyword of the database set.                *)
(***************************************************************************)
\* kw occurs in s at some offset, letter case ignored
OccursIgnoringCase(kw, s) ==
  \E a \in 0..Len(s) :
    /\ a + Len(kw) <= Len(s)
    /\ \A j \in 1..Len(kw) :
         \/ s[a + j] = kw[j]
         \/ (s[a + j] \in DOMAIN UpperToLower /\ UpperToLower[s[a + j]] = kw[j])

AiKeywordSet ==
  {<<"o", "p", "e", "n", "a", "i">>, <<"a", "i">>, <<"g", "p", "t">>,
   <<"l", "l", "m">>, <<"a", "g", "e", "n", "t">>,
   <<"a", "n", "t", "h", "r", "o", "p", "i", "c">>,
   <<"l", "a", "n", "g", "c", "h", "a", "i", "n">>}

DbKeywordSet ==
  {<<"p", "o", "s", "t", "g", "r", "e", "s">>, <<"m", "y", "s", "q", "l">>,
   <<"d", "a", "t", "a", "b", "a", "s", "e">>, <<"s", "q", "l">>,
   <<"m", "o", "n", "g", "o">>, <<"s", "u", "p", "a", "b", "a", "s", "e">>}

\* the nodes of list ns whose type contains a keyword of kws
NodesMatching(ns, kws) ==
  {k \in 1..Len(ns) :
     /\ "type" \in DOMAIN ns[k]
     /\ \E kw \in kws : OccursIgnoringCase(kw, ns[k]["type"])}

InputNodes(i) == IF "nodes" \in DOMAIN InputDoc(i) THEN InputDoc(i)["nodes"] ELSE <<>>

\* the classifier has just run for invocation i
Classified(i) == frame[i].pc = "analyzed"

C8_ClassificationCounts ==
  \A i \in Invocations :
    Classified(i) =>
      /\ frame[i].ai_nodes = Cardinality(NodesMatching(InputNodes(i), AiKeywordSet))
      /\ frame[i].db_nodes = Cardinality(NodesMatching(InputNodes(i), DbKeywordSet))

\* a node whose type holds several AI keywords, next to a node that holds none
C8_Witness ==
  \E i \in Invocations :
    /\ frame[i].pc = "analyzed"
    /\ \E k \in 1..Len(InputNodes(i)) :
         /\ "type" \in DOMAIN InputNodes(i)[k]
         /\ Cardinality({kw \in AiKeywordSet :
                           OccursIgnoringCase(kw, InputNodes(i)[k]["type"])}) >= 2
    /\ frame[i].ai_nodes = 1
    /\ frame[i].db_nodes = 0
    /\ Len(InputNodes(i)) = 2

(***************************************************************************)
(* C9: a fallback completion call is issued only if the primary            *)
(* completion call itself failed.                                          *)
(***************************************************************************)
C9_FallbackOnlyAfterPrimaryCallFailure ==
  \A i \in Invocations :
    FallbackCallsOf(i) # {} => PrimaryCallFailed(i)

====
